---------------------------- MODULE Spec2Model ----------------------------
(***************************************************************************)
(* A model of the catalyst marshalling engine of flask_fossen:             *)
(*   src/catalyst/fields.py    Field and its variants                      *)
(*   src/catalyst/catalyst.py  BaseCatalyst (the schema engine)            *)
(*   src/catalyst/utils.py     results, sentinels                          *)
(* A state holds one constructed schema, the last call made on it and what *)
(* that call produced.  Each public operation is one action; the pure      *)
(* algorithms (field operations, the field loop, the batch loop, the flow  *)
(* with hooks) are operators computed as the code computes them.           *)
(***************************************************************************)
EXTENDS Integers, Sequences, FiniteSets, TLC

VARIABLES schema, call, outcome

vars == <<schema, call, outcome>>

RECURSIVE ProcessFlow(_, _, _, _, _, _)
RECURSIVE FieldDump(_, _)
RECURSIVE FieldLoad(_, _)

(***************************************************************************)
(* Bounds of the model.                                                    *)
(***************************************************************************)
\* longest batch handed to dump_many / load_many
MaxItems == 2
\* longest list handed to a ListField
MaxListLen == 2

(***************************************************************************)
(* Values.  Every Python value is a record whose field name is its type,   *)
(* so that values of different types are comparable and different.         *)
(***************************************************************************)
\* utils.missing, the sentinel for "not in the data"
missing == [leaf |-> "missing"]
None == [leaf |-> "None"]
IntV(n) == [int |-> n]
StrV(s) == [str |-> s]
\* a dict with string keys
MapV(f) == [map |-> f]
\* an OrderedDict keyed by batch index (0-based, as enumerate counts)
IdxV(f) == [idx |-> f]
ListV(q) == [list |-> q]
\* an exception object that carries no result
Exc(kind) == [exc |-> kind]
\* True / False given for an optional argument (None is "not given")
BoolV(b) == [bool |-> b]
EmptyDict == [k \in {} |-> None]

IsInt(v) == "int" \in DOMAIN v
IsStr(v) == "str" \in DOMAIN v
IsMap(v) == "map" \in DOMAIN v
IsIdx(v) == "idx" \in DOMAIN v
IsList(v) == "list" \in DOMAIN v

\* d[k] = v on a dict
Put(d, k, v) == [x \in (DOMAIN d) \cup {k} |-> IF x = k THEN v ELSE d[x]]

\* Python truthiness of what the flow tests with "if not errors"
Truthy(v) ==
    CASE v = None -> FALSE
      [] IsMap(v) -> DOMAIN v.map # {}
      [] IsIdx(v) -> DOMAIN v.idx # {}
      [] OTHER -> TRUE

\* the outcome of an operation that returns or raises
Ok(v) == [ok |-> TRUE, val |-> v]
Raise(e) == [ok |-> FALSE, exc |-> e]

(***************************************************************************)
(* Results (utils.py) and the exception that carries one.                  *)
(***************************************************************************)
Result(valid_data, errors, invalid_data) ==
    [valid_data |-> valid_data, errors |-> errors, invalid_data |-> invalid_data]

is_valid(result) == ~Truthy(result.errors)

\* ValidationError(msg): msg is a message or a result
ValidationError(msg) == [exc |-> "ValidationError", msg |-> msg]

\* isinstance(e, ValidationError) and isinstance(e.msg, CatalystResult)
CarriesResult(e) ==
    /\ e.exc = "ValidationError"
    /\ "msg" \in DOMAIN e
    /\ "errors" \in DOMAIN e.msg

(***************************************************************************)
(* Converters a field is configured with.                                  *)
(***************************************************************************)
DigitOf == [s \in {"0", "1", "2"} |-> CASE s = "0" -> 0 [] s = "1" -> 1 [] s = "2" -> 2]
TextOf == [n \in {0, 1, 2} |-> CASE n = 0 -> "0" [] n = 1 -> "1" [] n = 2 -> "2"]

no_processing(value) == Ok(value)

\* int(value)
PyInt(value) ==
    CASE IsInt(value) -> Ok(value)
      [] IsStr(value) -> IF value.str \in DOMAIN DigitOf
                           THEN Ok(IntV(DigitOf[value.str]))
                           ELSE Raise(Exc("ValueError"))
      [] OTHER -> Raise(Exc("TypeError"))

\* str(value)
PyStr(value) ==
    CASE IsStr(value) -> Ok(value)
      [] IsInt(value) -> IF value.int \in DOMAIN TextOf
                           THEN Ok(StrV(TextOf[value.int]))
                           ELSE Ok(StrV("n"))
      [] value = None -> Ok(StrV("None"))
      [] OTHER -> Ok(StrV("obj"))

\* ComparisonValidator(min, max)(value); a bound of None is no bound
ComparisonValidator(v, value) ==
    IF ~IsInt(value) THEN Raise(Exc("TypeError"))
    ELSE IF \/ (v.min # None /\ value.int < v.min.int)
            \/ (v.max # None /\ value.int > v.max.int)
         THEN Raise(ValidationError(StrV("comparison")))
         ELSE Ok(value)

(***************************************************************************)
(* Field (fields.py).                                                      *)
(***************************************************************************)
\* Field.Options and Field.__init__ with no argument but the names
NewField(attr, name, key) ==
    [ attr |-> attr, name |-> name, key |-> key, class |-> "Field",
      formatter |-> "no_processing", format_none |-> FALSE,
      dump_required |-> TRUE, dump_default |-> missing, no_dump |-> FALSE,
      parser |-> "no_processing", parse_none |-> FALSE,
      load_required |-> FALSE, load_default |-> missing, no_load |-> FALSE,
      validators |-> <<>>, allow_none |-> TRUE,
      catalyst |-> None, item_field |-> None ]

\* ErrorMessageMixin: the error a field builds for an error key
FieldError(field, error_key) ==
    ValidationError(StrV(error_key))

\* a default that is a producer: calling it returns val or raises
Producer(val) == [producer |-> "returns", val |-> val]
FailingProducer == [producer |-> "raises", val |-> None]

\* Field.dump_default / Field.load_default: a callable default is called
FieldDefault(field, name) ==
    LET default == IF name = "dump" THEN field.dump_default ELSE field.load_default
    IN  IF "producer" \in DOMAIN default
          THEN IF default.producer = "raises"
                 THEN Raise(Exc("ProducerError"))
                 ELSE Ok(default.val)
          ELSE Ok(default)

\* for validator in self.opts.validators: validator(value)
RECURSIVE RunValidators(_, _, _)
RunValidators(field, value, i) ==
    IF i > Len(field.validators) THEN Ok(value)
    ELSE IF ComparisonValidator(field.validators[i], value).ok
           THEN RunValidators(field, value, i + 1)
           ELSE ComparisonValidator(field.validators[i], value)

\* Field.validate
FieldValidate(field, value) ==
    IF value = None
      THEN IF field.allow_none THEN Ok(None) ELSE Raise(FieldError(field, "none"))
      ELSE RunValidators(field, value, 1)


\* .valid_data of what a flow called with raise_error=True returned, or
\* the exception that came out of it
ValidDataOf(o) ==
    CASE o.kind = "returned" -> Ok(o.result.valid_data)
      [] o.kind = "raised" -> Raise(ValidationError(o.result))
      [] OTHER -> Raise(o.exc)

\* NestedField.Options.formatter: catalyst.dump(value, True).valid_data
NestedFormatter(field, value) ==
    ValidDataOf(ProcessFlow(field.catalyst, "dump", FALSE, value, BoolV(TRUE), None))

\* NestedField.Options.parser: catalyst.load(value, True).valid_data
NestedParser(field, value) ==
    ValidDataOf(ProcessFlow(field.catalyst, "load", FALSE, value, BoolV(TRUE), None))

\* a list comprehension over outs: the first raising element aborts it
Comprehension(outs) ==
    LET bad == {i \in 1..Len(outs) : ~outs[i].ok}
    IN  IF bad = {} THEN Ok(ListV([i \in 1..Len(outs) |-> outs[i].val]))
        ELSE outs[CHOOSE j \in bad : \A k \in bad : j <= k]

\* ListField.Options.formatter: [item_field.dump(item) for item in value]
ListFormatter(field, value) ==
    IF ~IsList(value) THEN Raise(Exc("TypeError"))
    ELSE Comprehension([i \in 1..Len(value.list) |->
                            FieldDump(field.item_field, value.list[i])])

\* ListField.Options.parser: [item_field.load(item) for item in value]
ListParser(field, value) ==
    IF ~IsList(value) THEN Raise(Exc("TypeError"))
    ELSE Comprehension([i \in 1..Len(value.list) |->
                            FieldLoad(field.item_field, value.list[i])])

\* field.opts.formatter(value)
Formatter(field, value) ==
    CASE field.formatter = "no_processing" -> no_processing(value)
      [] field.formatter = "int" -> PyInt(value)
      [] field.formatter = "str" -> PyStr(value)
      [] field.formatter = "nested" -> NestedFormatter(field, value)
      [] field.formatter = "list" -> ListFormatter(field, value)

\* field.opts.parser(value)
Parser(field, value) ==
    CASE field.parser = "no_processing" -> no_processing(value)
      [] field.parser = "int" -> PyInt(value)
      [] field.parser = "str" -> PyStr(value)
      [] field.parser = "nested" -> NestedParser(field, value)
      [] field.parser = "list" -> ListParser(field, value)

\* Field.format
FieldFormat(field, value) ==
    IF value = None /\ ~field.format_none THEN Ok(None)
    ELSE Formatter(field, value)

\* Field.parse without the early return for None
FieldParseAlways(field, value) == Parser(field, value)

\* Field.parse
FieldParse(field, value) ==
    IF value = None /\ ~field.parse_none THEN Ok(None)
    ELSE Parser(field, value)

\* Field.dump: validate, then format
FieldDump(field, value) ==
    IF FieldValidate(field, value).ok THEN FieldFormat(field, value)
    ELSE FieldValidate(field, value)

\* the second statement of Field.load, on what parse gave
ValidateParsed(field, p) ==
    IF ~p.ok THEN p
    ELSE IF FieldValidate(field, p.val).ok THEN p
         ELSE FieldValidate(field, p.val)

\* Field.load: parse, then validate the parsed value
FieldLoad(field, value) == ValidateParsed(field, FieldParse(field, value))

\* getattr(field, method)(raw_value)
FieldApply(field, method, value) ==
    CASE method = "dump" -> FieldDump(field, value)
      [] method = "format" -> FieldFormat(field, value)
      [] method = "load" -> FieldLoad(field, value)
      [] method = "parse" -> FieldParse(field, value)
      [] method = "validate" -> FieldValidate(field, value)

(***************************************************************************)
(* The schema (catalyst.py).  A registry is the sequence of its fields in  *)
(* iteration order.                                                        *)
(***************************************************************************)
HookNames ==
    {"pre_dump", "post_dump", "pre_load", "post_load",
     "pre_dump_many", "post_dump_many", "pre_load_many", "post_load_many"}

\* the hooks BaseCatalyst defines: each returns its data
IdentityHooks == [h \in HookNames |-> "returns"]

\* BaseCatalyst.Options
DefaultOptions ==
    [dump_method |-> "format", load_method |-> "load",
     raise_error |-> FALSE, all_errors |-> TRUE]

\* OptionBox.get(key=value): the argument when given, else the option
OptsGet(option, given) == IF given = None THEN option ELSE given.bool

Attrs(field_dict) == [i \in 1..Len(field_dict) |-> field_dict[i].attr]

FieldAt(field_dict, attr) ==
    field_dict[CHOOSE i \in 1..Len(field_dict) : field_dict[i].attr = attr]

\* is_copying that filters nothing
IsCopyingAll(field_dict, name, key) == TRUE

\* lambda k: not self._field_dict[k].opts.no_dump (resp. no_load)
IsCopying(field_dict, name, key) ==
    IF name = "dump" THEN ~FieldAt(field_dict, key).no_dump
    ELSE ~FieldAt(field_dict, key).no_load

RECURSIVE CopyFrom(_, _, _, _)
CopyFrom(field_dict, keys, name, i) ==
    IF i > Len(keys) THEN <<>>
    ELSE (IF IsCopying(field_dict, name, keys[i])
             /\ \A j \in 1..(i - 1) : keys[j] # keys[i]
            THEN <<FieldAt(field_dict, keys[i])>> ELSE <<>>)
         \o CopyFrom(field_dict, keys, name, i + 1)

\* BaseCatalyst._copy_fields
CopyFields(field_dict, keys, name) == CopyFrom(field_dict, keys, name, 1)

\* BaseCatalyst.__init__.  fields, dump_fields, load_fields are sequences of
\* attribute names (<<>> when not given); keyset is the order in which
\* set(self._field_dict.keys()) happens to iterate.
NewCatalyst(field_dict, fields, dump_fields, load_fields, options, hooks, keyset) ==
    LET fields1 == IF fields = <<>> THEN keyset ELSE fields
        dump_fields1 == IF dump_fields = <<>> THEN fields1 ELSE dump_fields
        load_fields1 == IF load_fields = <<>> THEN fields1 ELSE load_fields
    IN  [ field_dict |-> field_dict,
          dump_field_dict |-> CopyFields(field_dict, dump_fields1, "dump"),
          load_field_dict |-> CopyFields(field_dict, load_fields1, "load"),
          opts |-> options,
          hooks |-> hooks ]

\* a name or key that was not given to Field.__init__ (name: str = None)
Unset == ""

\* fields[attr] = value on a dict kept as the sequence of its values in
\* insertion order: a key that is there keeps its place
DictSet(fields, value) ==
    IF \E i \in 1..Len(fields) : fields[i].attr = value.attr
      THEN [i \in 1..Len(fields) |->
               IF fields[i].attr = value.attr THEN value ELSE fields[i]]
      ELSE Append(fields, value)

\* the body of the loop of _set_fields for a Field value: name and key
\* default to the attribute
Named(attr, value) ==
    [value EXCEPT !.attr = attr,
                  !.name = IF @ = Unset THEN attr ELSE @,
                  !.key = IF @ = Unset THEN attr ELSE @]

\* a catalyst found among the attrs is wrapped: NestedField(value)
Wrapped(value) ==
    IF "field_dict" \in DOMAIN value
      THEN [NewField("", Unset, Unset) EXCEPT
               !.class = "NestedField", !.formatter = "nested",
               !.parser = "nested", !.catalyst = value]
      ELSE value

RECURSIVE SetFrom(_, _, _)
\* the loop of _set_fields over attrs, pairs of an attribute and its value;
\* a value that is no Field is skipped
SetFrom(fields, attrs, i) ==
    IF i > Len(attrs) THEN fields
    ELSE SetFrom(IF "class" \in DOMAIN Wrapped(attrs[i].value)
                   THEN DictSet(fields, Named(attrs[i].attr, Wrapped(attrs[i].value)))
                   ELSE fields,
                 attrs, i + 1)

\* Catalyst._set_fields: the inherited registry, then attrs
SetFields(inherited, attrs) == SetFrom(inherited, attrs, 1)

\* new_cls._field_dict before _set_fields assigns it: the attribute is
\* looked up along the MRO, which finds it on the first base
InheritedFirstBase(bases) == IF bases = <<>> THEN <<>> ELSE bases[1]

\* CatalystMeta.__new__: the registry of a class with these bases (their
\* registries) and these attrs
ClassFields(bases, attrs) == SetFields(InheritedFirstBase(bases), attrs)

\* the registry, the identifiers and the field method of a direction
RegistryOf(s, name) == IF name = "dump" THEN s.dump_field_dict ELSE s.load_field_dict
SourceOf(field, name) == IF name = "dump" THEN field.name ELSE field.key
\* TargetOf that takes the name in both directions
TargetIsName(field, name) == field.name
TargetOf(field, name) == IF name = "dump" THEN field.key ELSE field.name
\* MethodOf with the field's dump as the method of dump, whatever the option
MethodIsDump(s, name) == IF name = "dump" THEN "dump" ELSE s.opts.load_method
MethodOf(s, name) == IF name = "dump" THEN s.opts.dump_method ELSE s.opts.load_method
RequiredOf(field, name) ==
    IF name = "dump" THEN field.dump_required ELSE field.load_required

\* get_value(data, source, default): the value under source, else default
GetValue(data, source, default) ==
    IF IsMap(data) /\ source \in DOMAIN data.map THEN data.map[source] ELSE default

\* BaseCatalyst._side_effect
SideEffect(s, hook, data) ==
    IF s.hooks[hook] = "returns"
      THEN [valid_data |-> data, errors |-> None, invalid_data |-> None]
      ELSE [valid_data |-> None,
            errors |-> MapV(Put(EmptyDict, hook, Exc("HookError"))),
            invalid_data |-> data]

\* what the field loop has built so far; visited lists the fields it reached
\* and escaped holds an exception no handler of the loop caught
NewAcc ==
    [valid_data |-> EmptyDict, errors |-> EmptyDict, invalid_data |-> EmptyDict,
     visited |-> <<>>, stopped |-> FALSE, escaped |-> None]

\* CollectError without the break of the fail-fast mode
CollectErrorNoBreak(acc, source, target, raw_value, e, all_errors) ==
    IF CarriesResult(e)
      THEN [acc EXCEPT !.valid_data = Put(@, target, e.msg.valid_data),
                       !.errors = Put(@, source, e.msg.errors),
                       !.invalid_data = Put(@, source, e.msg.invalid_data)]
      ELSE [acc EXCEPT !.errors = Put(@, source, e),
                       !.invalid_data = Put(@, source, raw_value)]

\* CollectError that records every exception as a leaf
CollectErrorAsLeaf(acc, source, target, raw_value, e, all_errors) ==
    [acc EXCEPT !.errors = Put(@, source, e),
                !.invalid_data = Put(@, source, raw_value),
                !.stopped = ~all_errors]

\* CollectError that keeps no invalid data
CollectErrorNoInvalid(acc, source, target, raw_value, e, all_errors) ==
    IF CarriesResult(e)
      THEN [acc EXCEPT !.valid_data = Put(@, target, e.msg.valid_data),
                       !.errors = Put(@, source, e.msg.errors),
                       !.stopped = ~all_errors]
      ELSE [acc EXCEPT !.errors = Put(@, source, e),
                       !.stopped = ~all_errors]

\* CollectError that puts the nested valid data under the source
CollectErrorAtSource(acc, source, target, raw_value, e, all_errors) ==
    IF CarriesResult(e)
      THEN [acc EXCEPT !.valid_data = Put(@, source, e.msg.valid_data),
                       !.errors = Put(@, source, e.msg.errors),
                       !.invalid_data = Put(@, source, e.msg.invalid_data),
                       !.stopped = ~all_errors]
      ELSE [acc EXCEPT !.errors = Put(@, source, e),
                       !.invalid_data = Put(@, source, raw_value),
                       !.stopped = ~all_errors]

\* the except branch of the field loop
CollectError(acc, source, target, raw_value, e, all_errors) ==
    IF CarriesResult(e)
      THEN [acc EXCEPT !.valid_data = Put(@, target, e.msg.valid_data),
                       !.errors = Put(@, source, e.msg.errors),
                       !.invalid_data = Put(@, source, e.msg.invalid_data),
                       !.stopped = ~all_errors]
      ELSE [acc EXCEPT !.errors = Put(@, source, e),
                       !.invalid_data = Put(@, source, raw_value),
                       !.stopped = ~all_errors]

\* MissingValue without the test of required: a missing value is skipped
MissingValueSkipped(acc, field, source, required, all_errors) == acc

\* the branch of the field loop for a value that is missing
MissingValue(acc, field, source, required, all_errors) ==
    IF required
      THEN [acc EXCEPT !.errors = Put(@, source, FieldError(field, "required")),
                       !.stopped = ~all_errors]
      ELSE acc

\* the try block of the field loop, on the raw value and on what the field
\* method gave for it (r is not looked at when the value is missing)
TryField(acc, field, source, target, required, raw_value, r, all_errors) ==
    IF raw_value = missing
      THEN MissingValue(acc, field, source, required, all_errors)
      ELSE IF r.ok
             THEN [acc EXCEPT !.valid_data = Put(@, target, r.val)]
             ELSE CollectError(acc, source, target, raw_value, r.exc, all_errors)

\* the field loop from the fetch of the raw value on
FetchAndTry(s, name, all_errors, field, acc, raw_value) ==
    TryField([acc EXCEPT !.visited = Append(@, field.attr)], field,
             SourceOf(field, name), TargetOf(field, name), RequiredOf(field, name),
             raw_value, FieldApply(field, MethodOf(s, name), raw_value), all_errors)

\* WithDefault with the default used only for a field that is not required
WithDefaultUnlessRequired(s, name, data, all_errors, field, acc, default) ==
    IF ~default.ok THEN [acc EXCEPT !.escaped = default.exc]
    ELSE FetchAndTry(s, name, all_errors, field, acc,
                     GetValue(data, SourceOf(field, name),
                              IF RequiredOf(field, name) THEN missing ELSE default.val))

\* one pass of the field loop of _process_one, from the default it reads
WithDefault(s, name, data, all_errors, field, acc, default) ==
    IF ~default.ok THEN [acc EXCEPT !.escaped = default.exc]
    ELSE FetchAndTry(s, name, all_errors, field, acc,
                     GetValue(data, SourceOf(field, name), default.val))

\* one pass of the field loop of _process_one
FieldStep(s, name, data, all_errors, field, acc) ==
    WithDefault(s, name, data, all_errors, field, acc, FieldDefault(field, name))

RECURSIVE FieldLoop(_, _, _, _, _, _)
FieldLoop(s, name, data, all_errors, i, acc) ==
    IF i > Len(RegistryOf(s, name)) \/ acc.stopped \/ acc.escaped # None THEN acc
    ELSE FieldLoop(s, name, data, all_errors, i + 1,
                   FieldStep(s, name, data, all_errors, RegistryOf(s, name)[i], acc))

\* what _process_one returns, from what its loop built
OneReturn(acc) ==
    [valid_data |-> MapV(acc.valid_data), errors |-> MapV(acc.errors),
     invalid_data |-> MapV(acc.invalid_data),
     visited |-> acc.visited, escaped |-> acc.escaped]

\* BaseCatalyst._process_one
ProcessOne(s, name, data, all_errors) ==
    OneReturn(FieldLoop(s, name, data, all_errors, 1, NewAcc))

\* KeepItem with the entries of a failed item keyed from 1
KeepItemFromOne(acc, i, o, all_errors) ==
    IF o.kind = "escaped" THEN [acc EXCEPT !.escaped = o.exc]
    ELSE IF ~is_valid(o.result)
           THEN [acc EXCEPT !.valid_data = Append(@, o.result.valid_data),
                            !.visited = Append(@, i),
                            !.errors = Put(@, i + 1, o.result.errors),
                            !.invalid_data = Put(@, i + 1, o.result.invalid_data),
                            !.stopped = ~all_errors]
           ELSE [acc EXCEPT !.valid_data = Append(@, o.result.valid_data),
                            !.visited = Append(@, i)]

\* the body of the item loop, on the result o of the item's flow
KeepItem(acc, i, o, all_errors) ==
    IF o.kind = "escaped" THEN [acc EXCEPT !.escaped = o.exc]
    ELSE IF ~is_valid(o.result)
           THEN [acc EXCEPT !.valid_data = Append(@, o.result.valid_data),
                            !.visited = Append(@, i),
                            !.errors = Put(@, i, o.result.errors),
                            !.invalid_data = Put(@, i, o.result.invalid_data),
                            !.stopped = ~all_errors]
           ELSE [acc EXCEPT !.valid_data = Append(@, o.result.valid_data),
                            !.visited = Append(@, i)]

\* one pass of the item loop of _process_many; i counts from 0
ItemStep(s, name, all_errors, i, item, acc) ==
    KeepItem(acc, i, ProcessFlow(s, name, FALSE, item, BoolV(FALSE), BoolV(all_errors)),
             all_errors)

RECURSIVE ItemLoop(_, _, _, _, _, _)
ItemLoop(s, name, items, all_errors, i, acc) ==
    IF i > Len(items) \/ acc.stopped \/ acc.escaped # None THEN acc
    ELSE ItemLoop(s, name, items, all_errors, i + 1,
                  ItemStep(s, name, all_errors, i - 1, items[i], acc))

\* what _process_many returns, from what its loop built
ManyReturn(acc) ==
    [valid_data |-> ListV(acc.valid_data), errors |-> IdxV(acc.errors),
     invalid_data |-> IdxV(acc.invalid_data),
     visited |-> acc.visited, escaped |-> acc.escaped]

\* BaseCatalyst._process_many
ProcessMany(s, name, data, all_errors) ==
    ManyReturn(ItemLoop(s, name, data.list, all_errors, 1,
                        [NewAcc EXCEPT !.valid_data = <<>>]))

\* Finish that raises whenever there are errors
FinishRaising(last, raise_error, ran, visited) ==
    [kind |-> IF Truthy(last.errors) THEN "raised" ELSE "returned",
     exc |-> None,
     result |-> Result(last.valid_data, last.errors, last.invalid_data),
     ran |-> ran, visited |-> visited]

\* the end of _process_flow: the result is built from the last step's
\* triple, and raised or returned.  ran lists the steps that ran, visited
\* is what the main step reached.
Finish(last, raise_error, ran, visited) ==
    [kind |-> IF Truthy(last.errors) /\ raise_error THEN "raised" ELSE "returned",
     exc |-> None,
     result |-> Result(last.valid_data, last.errors, last.invalid_data),
     ran |-> ran, visited |-> visited]

\* AfterMain that runs the post hook whatever the main step produced
AfterMainAlways(s, method_name, raise_error, main) ==
    IF main.escaped # None
      THEN [kind |-> "escaped", exc |-> main.escaped, result |-> None,
            ran |-> <<"pre", "main">>, visited |-> main.visited]
      ELSE Finish(SideEffect(s, "post_" \o method_name, main.valid_data),
                  raise_error, <<"pre", "main", "post">>, main.visited)

\* _process_flow from the second "if not errors" on
AfterMain(s, method_name, raise_error, main) ==
    IF main.escaped # None
      THEN [kind |-> "escaped", exc |-> main.escaped, result |-> None,
            ran |-> <<"pre", "main">>, visited |-> main.visited]
      ELSE IF ~Truthy(main.errors)
             THEN Finish(SideEffect(s, "post_" \o method_name, main.valid_data),
                         raise_error, <<"pre", "main", "post">>, main.visited)
             ELSE Finish(main, raise_error, <<"pre", "main">>, main.visited)

\* handle(name, valid_data, all_errors)
Handle(s, name, many, data, all_errors) ==
    IF many THEN ProcessMany(s, name, data, all_errors)
    ELSE ProcessOne(s, name, data, all_errors)

\* _process_flow from the first "if not errors" on
AfterPre(s, name, many, method_name, raise_error, all_errors, pre) ==
    IF ~Truthy(pre.errors)
      THEN AfterMain(s, method_name, raise_error,
                     Handle(s, name, many, pre.valid_data, all_errors))
      ELSE Finish(pre, raise_error, <<"pre">>, <<>>)

\* BaseCatalyst._process_flow
ProcessFlow(s, name, many, data, raise_error, all_errors) ==
    AfterPre(s, name, many, IF many THEN name \o "_many" ELSE name,
             OptsGet(s.opts.raise_error, raise_error),
             OptsGet(s.opts.all_errors, all_errors),
             SideEffect(s, "pre_" \o (IF many THEN name \o "_many" ELSE name), data))

(***************************************************************************)
(* The schemas of the model.                                               *)
(***************************************************************************)
\* IntegerField(**kw)
IntegerField(field) ==
    [field EXCEPT !.class = "IntegerField", !.formatter = "int", !.parser = "int"]

\* StringField(**kw)
StringField(field) ==
    [field EXCEPT !.class = "StringField", !.formatter = "str", !.parser = "str"]

\* NumberField(max_value=n, **kw): add_validator(ComparisonValidator(None, n))
WithMaxValue(field, n) ==
    [field EXCEPT !.validators = Append(@, [min |-> None, max |-> IntV(n)])]

\* NestedField(catalyst, **kw)
NestedField(field, catalyst) ==
    [field EXCEPT !.class = "NestedField", !.formatter = "nested",
                  !.parser = "nested", !.catalyst = catalyst]

\* ListField(item_field, **kw)
ListField(field, item_field) ==
    [field EXCEPT !.class = "ListField", !.formatter = "list",
                  !.parser = "list", !.item_field = item_field]

\* CallableField(no_load=..., **kw): the no_load given is dropped and
\* no_load=True is passed on
CallableField(field, no_load) ==
    [field EXCEPT !.class = "CallableField", !.formatter = "call", !.no_load = TRUE]

FieldA == NewField("a", "a", "a")
FieldB == NewField("b", "b", "b")

\* the declarations of the first field of a flat schema
LeafFields ==
    { FieldA,
      NewField("a", "a", "ka"),
      [FieldA EXCEPT !.load_required = TRUE],
      [FieldA EXCEPT !.dump_required = FALSE],
      [FieldA EXCEPT !.dump_default = IntV(0), !.load_default = IntV(0)],
      [FieldA EXCEPT !.dump_default = IntV(0), !.load_default = IntV(0),
                     !.load_required = TRUE, !.dump_required = FALSE],
      [FieldA EXCEPT !.load_default = Producer(IntV(1)),
                     !.dump_default = Producer(IntV(1))],
      [FieldA EXCEPT !.allow_none = FALSE],
      [IntegerField(FieldA) EXCEPT !.allow_none = FALSE, !.parse_none = TRUE,
                                   !.format_none = TRUE],
      [StringField(FieldA) EXCEPT !.allow_none = FALSE, !.parse_none = TRUE],
      [WithMaxValue(IntegerField(NewField("a", "a", "ka")), 1) EXCEPT
           !.allow_none = FALSE],
      [StringField(FieldA) EXCEPT !.load_default = IntV(0), !.dump_default = IntV(0)],
      [WithMaxValue(IntegerField(FieldA), 1) EXCEPT
           !.load_default = IntV(2), !.dump_default = IntV(2)],
      [FieldA EXCEPT !.no_load = TRUE],
      [FieldA EXCEPT !.no_dump = TRUE] }

\* the declarations of the second field of a flat schema
SecondFields ==
    { [FieldB EXCEPT !.load_required = TRUE],
      IntegerField([NewField("b", "b", "kb") EXCEPT !.dump_required = FALSE]) }

FailFast == [DefaultOptions EXCEPT !.all_errors = FALSE]
Raising == [DefaultOptions EXCEPT !.raise_error = TRUE]

\* the orders in which the key set of a declaration may iterate
KeySets(field_dict) ==
    { q \in [1..Len(field_dict) -> {field_dict[i].attr : i \in 1..Len(field_dict)}] :
        \A i, j \in 1..Len(field_dict) : i # j => q[i] # q[j] }

Catalysts(field_dict, options, hooks) ==
    { NewCatalyst(field_dict, <<>>, <<>>, <<>>, options, hooks, keyset) :
        keyset \in KeySets(field_dict) }

\* schemas of two leaf fields, with the options of BaseCatalyst
FlatSchemas ==
    UNION { Catalysts(<<a, b>>, DefaultOptions, IdentityHooks) :
              a \in LeafFields, b \in SecondFields }

\* schemas constructed with other options
OptionSchemas ==
    UNION { Catalysts(<<[FieldA EXCEPT !.load_required = TRUE],
                        [FieldB EXCEPT !.load_required = TRUE]>>,
                      options, IdentityHooks) :
              options \in {FailFast, Raising,
                           [DefaultOptions EXCEPT !.dump_method = "dump"],
                           [DefaultOptions EXCEPT !.dump_method = "validate",
                                                  !.load_method = "parse"]} }

\* schemas built with dump_method='dump', of a field that validates
ValidatingSchemas ==
    Catalysts(<<[WithMaxValue(IntegerField(NewField("a", "a", "ka")), 1) EXCEPT
                    !.allow_none = FALSE],
                FieldB>>,
              [DefaultOptions EXCEPT !.dump_method = "dump"], IdentityHooks)

FieldX == NewField("x", "x", "kx")
FieldY == [NewField("y", "y", "y") EXCEPT !.load_required = TRUE]

\* the schemas a NestedField wraps
InnerSchemas ==
    UNION { Catalysts(<<x, FieldY>>, options, IdentityHooks) :
              x \in {FieldX, IntegerField(FieldX)},
              options \in {DefaultOptions, FailFast} }

\* a schema nested in a schema nested in a schema
DeepSchemas ==
    { NewCatalyst(<<NestedField(NewField("m", "m", "km"), inner)>>, <<>>, <<>>, <<>>,
                  DefaultOptions, IdentityHooks, <<"m">>) :
        inner \in Catalysts(<<IntegerField(FieldX), FieldY>>,
                            DefaultOptions, IdentityHooks) }

NestedSchemas ==
    UNION { Catalysts(<<NestedField(NewField("n", "n", "kn"), inner),
                        [FieldB EXCEPT !.load_required = TRUE]>>,
                      options, IdentityHooks) :
              inner \in InnerSchemas \cup DeepSchemas,
              options \in {DefaultOptions, FailFast} }

\* the schema of the elements of a list of mappings
ItemSchema ==
    NewCatalyst(<<IntegerField(FieldX), FieldY>>, <<>>, <<>>, <<>>,
                DefaultOptions, IdentityHooks, <<"x", "y">>)

ListSchemas ==
    UNION { Catalysts(<<ListField(NewField("l", "l", "kl"), item),
                        [FieldB EXCEPT !.load_required = TRUE]>>,
                      DefaultOptions, IdentityHooks) :
              item \in {WithMaxValue(IntegerField(NewField("i", "i", "i")), 1),
                        NestedField(NewField("i", "i", "i"), ItemSchema)} }

\* a subclass that overrides one hook with a method that raises
FailingHook(hook) == [IdentityHooks EXCEPT ![hook] = "raises"]

\* schemas with code of the user in them that raises
UserSchemas ==
    UNION ( { Catalysts(<<[FieldA EXCEPT !.load_required = TRUE],
                          IntegerField(FieldB)>>,
                        DefaultOptions, FailingHook(hook)) : hook \in HookNames }
            \cup
            { Catalysts(<<[FieldA EXCEPT !.load_default = FailingProducer,
                                         !.dump_default = FailingProducer],
                          [FieldB EXCEPT !.load_required = TRUE]>>,
                        options, IdentityHooks) : options \in {DefaultOptions, Raising} }
            \cup
            { Catalysts(<<NestedField(NewField("n", "n", "kn"), inner),
                          [FieldB EXCEPT !.load_required = TRUE]>>,
                        DefaultOptions, IdentityHooks) :
                inner \in Catalysts(<<[FieldX EXCEPT !.load_default = FailingProducer,
                                                     !.dump_default = FailingProducer],
                                       FieldY>>,
                                     DefaultOptions, IdentityHooks)
                           \cup Catalysts(<<FieldX, FieldY>>, DefaultOptions,
                                          FailingHook("pre_load"))
                           \cup Catalysts(<<FieldX, FieldY>>, DefaultOptions,
                                          FailingHook("post_dump")) } )

Schemas ==
    FlatSchemas \cup OptionSchemas \cup ValidatingSchemas \cup NestedSchemas \cup ListSchemas

(***************************************************************************)
(* The data handed to the operations.                                      *)
(***************************************************************************)
SeqsUpTo(S, n) == UNION {[1..k -> S] : k \in 0..n}

LeafValues(attr, wide) ==
    IF attr = "a"
      THEN IF wide THEN {None, IntV(1), IntV(2), StrV("1"), StrV("x")}
           ELSE {IntV(1), StrV("x")}
      ELSE IF wide \/ attr = "x" THEN {IntV(1), StrV("x")} ELSE {IntV(1)}

RECURSIVE ValuesOf(_, _, _)
RECURSIVE DataFrom(_, _, _, _)

\* the mappings that hold a value for some of the registry's fields
DataFrom(registry, name, wide, i) ==
    IF i > Len(registry) THEN {EmptyDict}
    ELSE DataFrom(registry, name, wide, i + 1) \cup
         { Put(d, SourceOf(registry[i], name), v) :
             d \in DataFrom(registry, name, wide, i + 1),
             v \in ValuesOf(registry[i], name, wide) }

DataOf(s, name, wide) == { MapV(d) : d \in DataFrom(RegistryOf(s, name), name, wide, 1) }

\* the values a field is handed
ValuesOf(field, name, wide) ==
    CASE field.class = "NestedField" ->
           {None} \cup DataOf(field.catalyst, name, FALSE)
      [] field.class = "ListField" ->
           {None, IntV(1)} \cup
           { ListV(q) : q \in SeqsUpTo(ValuesOf(field.item_field, name, FALSE) \cup
                                         (IF field.item_field.class = "NestedField"
                                            THEN {} ELSE {IntV(2)}),
                                       MaxListLen) }
      [] OTHER -> LeafValues(field.attr, wide)

RECURSIVE CompleteFrom(_, _, _)
RECURSIVE ItemValuesOf(_, _)

\* the values of a field in an item of a batch
ItemValuesOf(field, name) ==
    CASE field.class = "NestedField" ->
           { MapV(d) : d \in CompleteFrom(RegistryOf(field.catalyst, name), name, 1) }
      [] field.class = "ListField" ->
           IF field.item_field.class = "NestedField"
             THEN { ListV(<<v>>) : v \in ItemValuesOf(field.item_field, name) }
             ELSE {ListV(<<IntV(1)>>), ListV(<<IntV(2)>>)}
      [] OTHER -> LeafValues(field.attr, FALSE)

\* the mappings that hold a value for every field of the registry
CompleteFrom(registry, name, i) ==
    IF i > Len(registry) THEN {EmptyDict}
    ELSE { Put(d, SourceOf(registry[i], name), v) :
             d \in CompleteFrom(registry, name, i + 1),
             v \in ItemValuesOf(registry[i], name) }

\* the items of a batch: the empty mapping, and mappings that hold a value
\* for every field of the registry
ItemsOf(s, name) ==
    {MapV(EmptyDict)} \cup
    { MapV(d) : d \in CompleteFrom(RegistryOf(s, name), name, 1) }

\* the batches handed to dump_many / load_many
BatchesOf(s, name) == { ListV(q) : q \in SeqsUpTo(ItemsOf(s, name), MaxItems) }

\* an optional boolean argument: not given, True, False
Given == {None, BoolV(TRUE), BoolV(FALSE)}

(***************************************************************************)
(* The state machine.                                                      *)
(***************************************************************************)
NoCall ==
    [op |-> "none", field |-> "", data |-> None, raise_error |-> None, all_errors |-> None]
NoOutcome == [kind |-> "none", exc |-> None, result |-> None, ran |-> <<>>, visited |-> <<>>]

Call(op, data, raise_error, all_errors) ==
    [op |-> op, field |-> "", data |-> data,
     raise_error |-> raise_error, all_errors |-> all_errors]

Init ==
    /\ schema \in Schemas
    /\ call = NoCall
    /\ outcome = NoOutcome

\* schema.dump(data, raise_error, all_errors)
Dump ==
    /\ call = NoCall
    /\ \E data \in DataOf(schema, "dump", TRUE), raise_error \in Given, all_errors \in Given :
           /\ call' = Call("dump", data, raise_error, all_errors)
           /\ outcome' = ProcessFlow(schema, "dump", FALSE, data, raise_error, all_errors)
           /\ UNCHANGED schema

\* schema.load(data, raise_error, all_errors)
Load ==
    /\ call = NoCall
    /\ \E data \in DataOf(schema, "load", TRUE), raise_error \in Given, all_errors \in Given :
           /\ call' = Call("load", data, raise_error, all_errors)
           /\ outcome' = ProcessFlow(schema, "load", FALSE, data, raise_error, all_errors)
           /\ UNCHANGED schema

\* schema.dump_many(data, raise_error, all_errors)
DumpMany ==
    /\ call = NoCall
    /\ \E data \in BatchesOf(schema, "dump"), raise_error \in Given, all_errors \in Given :
           /\ call' = Call("dump_many", data, raise_error, all_errors)
           /\ outcome' = ProcessFlow(schema, "dump", TRUE, data, raise_error, all_errors)
           /\ UNCHANGED schema

\* schema.load_many(data, raise_error, all_errors)
LoadMany ==
    /\ call = NoCall
    /\ \E data \in BatchesOf(schema, "load"), raise_error \in Given, all_errors \in Given :
           /\ call' = Call("load_many", data, raise_error, all_errors)
           /\ outcome' = ProcessFlow(schema, "load", TRUE, data, raise_error, all_errors)
           /\ UNCHANGED schema

\* what a call of a field operation produced
FieldOutcome(r) ==
    [kind |-> IF r.ok THEN "value" ELSE "error",
     exc |-> IF r.ok THEN None ELSE r.exc,
     result |-> IF r.ok THEN r.val ELSE None,
     ran |-> <<>>, visited |-> <<>>]

\* field.load(value) on a declared field of the schema
LoadField ==
    /\ call = NoCall
    /\ \E i \in 1..Len(schema.field_dict) :
         \E value \in ValuesOf(schema.field_dict[i], "load", TRUE) :
           /\ call' = [Call("field_load", value, None, None) EXCEPT
                          !.field = schema.field_dict[i].attr]
           /\ outcome' = FieldOutcome(FieldLoad(schema.field_dict[i], value))
           /\ UNCHANGED schema

\* the caller drops what the call produced; the schema is ready for a call
Discard ==
    /\ call # NoCall
    /\ call' = NoCall
    /\ outcome' = NoOutcome
    /\ UNCHANGED schema

Next == Dump \/ Load \/ DumpMany \/ LoadMany \/ LoadField \/ Discard

\* the engine as it is shipped: the hooks are BaseCatalyst's
Spec == Init /\ [][Next]_vars

\* the engine with code of its user in it: hooks a subclass overrides and
\* default producers, which may raise
InitUser ==
    /\ schema \in UserSchemas
    /\ call = NoCall
    /\ outcome = NoOutcome

SpecUser == InitUser /\ [][Next]_vars

(***************************************************************************)
(* Declaring and constructing schemas.                                     *)
(***************************************************************************)
\* most names in a fields / dump_fields / load_fields argument
MaxNames == 2

Declare(attr, value) == [attr |-> attr, value |-> value]

\* class bodies: sequences of attributes in the order they are written
Bodies ==
    { <<Declare("a", NewField("", Unset, Unset)),
        Declare("b", IntegerField(NewField("", Unset, "kb")))>>,
      <<Declare("b", [StringField(NewField("", Unset, Unset)) EXCEPT !.no_load = TRUE]),
        Declare("c", CallableField(NewField("", Unset, Unset), FALSE))>>,
      <<Declare("a", [IntegerField(NewField("", Unset, "ka")) EXCEPT !.no_dump = TRUE]),
        Declare("n", IntV(1))>>,
      <<Declare("d", [NewField("", "dn", Unset) EXCEPT !.load_required = TRUE])>> }

\* the registries of classes written with Catalyst as their base
RootClasses == { ClassFields(<<>>, attrs) : attrs \in Bodies }

\* the registries of the classes a new class may name as a base
BaseClasses ==
    RootClasses \cup
    { ClassFields(<<base>>,
                  <<Declare("a", StringField(NewField("", Unset, Unset))),
                    Declare("e", NewField("", Unset, Unset))>>) :
        base \in RootClasses }

\* class X(*bases): body, then X(): the metaclass builds the registry
\* of the class and __init__ the registries of the instance
Define ==
    /\ call = NoCall
    /\ \E bases \in SeqsUpTo(BaseClasses, 2) :
         \E attrs \in Bodies :
           \E keyset \in KeySets(ClassFields(bases, attrs)) :
             /\ schema' = NewCatalyst(ClassFields(bases, attrs), <<>>, <<>>, <<>>,
                                      DefaultOptions, IdentityHooks, keyset)
             /\ call' = Call("define", [bases |-> bases, attrs |-> attrs], None, None)
             /\ outcome' = NoOutcome

\* type(schema)(fields=..., dump_fields=..., load_fields=...): another
\* instance of the schema's class; a name that is not declared is not given
Construct ==
    /\ call = NoCall
    /\ \E fields, dump_fields, load_fields \in
            SeqsUpTo({schema.field_dict[i].attr : i \in 1..Len(schema.field_dict)},
                     MaxNames) :
         \E keyset \in KeySets(schema.field_dict) :
           /\ schema' = NewCatalyst(schema.field_dict, fields, dump_fields, load_fields,
                                    schema.opts, schema.hooks, keyset)
           /\ call' = Call("init", [fields |-> fields, dump_fields |-> dump_fields,
                                    load_fields |-> load_fields], None, None)
           /\ outcome' = NoOutcome

InitBuild ==
    /\ schema \in { NewCatalyst(field_dict, <<>>, <<>>, <<>>, DefaultOptions,
                                 IdentityHooks, Attrs(field_dict)) :
                       field_dict \in RootClasses }
    /\ call = NoCall
    /\ outcome = NoOutcome

NextBuild == Define \/ Construct

\* a class is written, or an instance constructed, from the classes of
\* InitBuild
SpecBuild == InitBuild /\ [][NextBuild]_vars

(***************************************************************************)
(* Callers that share a schema.  Each caller runs one call, a pass of a    *)
(* loop at a time; call holds the callers' frames and outcome the          *)
(* accumulators of the loops.                                              *)
(***************************************************************************)
Callers == {1, 2}

\* the frame of a caller that has not called yet
Idle ==
    [op |-> "none", many |-> FALSE, data |-> None, raise_error |-> None,
     all_errors |-> None, pc |-> "idle", i |-> 0, valid |-> None,
     mixed |-> FALSE, returned |-> NoOutcome]

NameOf(op) == IF op \in {"dump", "dump_many"} THEN "dump" ELSE "load"

\* accumulators kept on the schema, one set for _process_one and one for
\* _process_many, whoever calls
AccumulatorsShared(t, many) == <<1, many>>
\* where the accumulators of a caller's loop are: valid_data, errors and
\* invalid_data are locals of _process_one / _process_many
Accumulators(t, many) == <<t, many>>

\* the schemas callers share
SharedSchemas ==
    { NewCatalyst(<<[FieldA EXCEPT !.load_required = TRUE],
                    IntegerField(NewField("b", "b", "kb"))>>, <<>>, <<>>, <<>>,
                  DefaultOptions, IdentityHooks, <<"a", "b">>),
      NewCatalyst(<<[FieldA EXCEPT !.load_required = TRUE],
                    [FieldB EXCEPT !.load_required = TRUE]>>, <<>>, <<>>, <<>>,
                  FailFast, IdentityHooks, <<"b", "a">>),
      NewCatalyst(<<NestedField(NewField("n", "n", "kn"),
                                NewCatalyst(<<IntegerField(FieldX), FieldY>>, <<>>, <<>>,
                                            <<>>, DefaultOptions, IdentityHooks,
                                            <<"x", "y">>)),
                    [FieldB EXCEPT !.load_required = TRUE]>>, <<>>, <<>>, <<>>,
                  DefaultOptions, IdentityHooks, <<"n", "b">>) }

\* the frame of a call after its pre hook
Entered(op, many, data, raise_error, all_errors, pre) ==
    [Idle EXCEPT !.op = op, !.many = many, !.data = data,
                 !.raise_error = raise_error, !.all_errors = all_errors,
                 !.pc = IF Truthy(pre.errors) THEN "done" ELSE "loop",
                 !.i = 1, !.valid = pre.valid_data,
                 !.returned = IF Truthy(pre.errors)
                                THEN Finish(pre, OptsGet(schema.opts.raise_error,
                                                         raise_error), <<"pre">>, <<>>)
                                ELSE NoOutcome]

\* a caller enters _process_flow: the pre hook runs and the loop's
\* accumulators are created
Begin(t, op, many, data) ==
    /\ call[t].pc = "idle"
    /\ call' = [call EXCEPT ![t] =
                    Entered(op, many, data, None, None,
                            SideEffect(schema, "pre_" \o op, data))]
    /\ outcome' = [outcome EXCEPT ![Accumulators(t, many)] =
                       IF many THEN [NewAcc EXCEPT !.valid_data = <<>>] ELSE NewAcc]
    /\ UNCHANGED schema

BeginOne(t) ==
    \E op \in {"dump", "load"} :
        \E data \in ItemsOf(schema, op) : Begin(t, op, FALSE, data)

BeginMany(t) ==
    \E op \in {"dump_many", "load_many"} :
        \E x, y \in ItemsOf(schema, NameOf(op)) :
            x # y /\ Begin(t, op, TRUE, ListV(<<x, y>>))

LoopEnded(t) ==
    \/ outcome[Accumulators(t, call[t].many)].stopped
    \/ outcome[Accumulators(t, call[t].many)].escaped # None
    \/ call[t].i > (IF call[t].many THEN Len(call[t].valid.list)
                    ELSE Len(RegistryOf(schema, NameOf(call[t].op))))

\* the frame after one more pass of its loop
Advanced(t) ==
    [call[t] EXCEPT !.i = @ + 1,
                    !.mixed = @ \/ \E u \in Callers \ {t} : call[u].pc = "loop"]

\* one pass of the field loop of a caller's _process_one
StepField(t) ==
    /\ call[t].pc = "loop" /\ ~call[t].many /\ ~LoopEnded(t)
    /\ outcome' = [outcome EXCEPT ![Accumulators(t, call[t].many)] =
           FieldStep(schema, NameOf(call[t].op), call[t].valid,
                     OptsGet(schema.opts.all_errors, call[t].all_errors),
                     RegistryOf(schema, NameOf(call[t].op))[call[t].i], @)]
    /\ call' = [call EXCEPT ![t] = Advanced(t)]
    /\ UNCHANGED schema

\* one pass of the item loop of a caller's _process_many
StepItem(t) ==
    /\ call[t].pc = "loop" /\ call[t].many /\ ~LoopEnded(t)
    /\ outcome' = [outcome EXCEPT ![Accumulators(t, call[t].many)] =
           ItemStep(schema, NameOf(call[t].op),
                    OptsGet(schema.opts.all_errors, call[t].all_errors),
                    call[t].i - 1, call[t].valid.list[call[t].i], @)]
    /\ call' = [call EXCEPT ![t] = Advanced(t)]
    /\ UNCHANGED schema

\* the loop of a caller is over: its function returns what the loop
\* built, the post hook runs and _process_flow returns or raises
End(t) ==
    /\ call[t].pc = "loop" /\ LoopEnded(t)
    /\ call' = [call EXCEPT ![t] =
           [@ EXCEPT !.pc = "done",
                     !.returned =
                        AfterMain(schema, call[t].op,
                                  OptsGet(schema.opts.raise_error, call[t].raise_error),
                                  IF call[t].many
                                    THEN ManyReturn(outcome[Accumulators(t, call[t].many)])
                                    ELSE OneReturn(outcome[Accumulators(t, call[t].many)]))]]
    /\ UNCHANGED <<schema, outcome>>

InitThreads ==
    /\ schema \in SharedSchemas
    /\ call = [t \in Callers |-> Idle]
    /\ outcome = [k \in Callers \X BOOLEAN |-> NewAcc]

NextThreads ==
    \E t \in Callers :
        BeginOne(t) \/ BeginMany(t) \/ StepField(t) \/ StepItem(t) \/ End(t)

\* two callers, each making one call on the same schema, their steps
\* interleaved in every order
SpecThreads == InitThreads /\ [][NextThreads]_vars

(***************************************************************************)
(* What a state shows of the last call.                                    *)
(***************************************************************************)
Direction == IF call.op \in {"dump", "dump_many"} THEN "dump" ELSE "load"
SingleCall == call.op \in {"dump", "load"}
BatchCall == call.op \in {"dump_many", "load_many"}
\* the call built a Result, returned or carried by the exception it raised
HasResult == outcome.kind \in {"returned", "raised"}
Registry == RegistryOf(schema, Direction)

KeysOf(v) ==
    CASE IsMap(v) -> DOMAIN v.map
      [] IsIdx(v) -> DOMAIN v.idx
      [] OTHER -> {}

\* the call's data holds no value for the field
Absent(field) == SourceOf(field, Direction) \notin KeysOf(call.data)
\* the field loop of the call came to the field
Reached(field) == \E i \in 1..Len(outcome.visited) : outcome.visited[i] = field.attr
DeclaredDefault(field) ==
    IF Direction = "dump" THEN field.dump_default ELSE field.load_default
RequiredError == ValidationError(StrV("required"))
EffectiveAllErrors ==
    IF call.all_errors = None THEN schema.opts.all_errors ELSE call.all_errors.bool
EffectiveRaiseError ==
    IF call.raise_error = None THEN schema.opts.raise_error ELSE call.raise_error.bool

\* the field has its required error in the result, which is invalid
HasRequiredError(field) ==
    /\ ~is_valid(outcome.result)
    /\ SourceOf(field, Direction) \in KeysOf(outcome.result.errors)
    /\ outcome.result.errors.map[SourceOf(field, Direction)] = RequiredError

\* the field has no entry in the result
HasNoEntry(field) ==
    /\ TargetOf(field, Direction) \notin KeysOf(outcome.result.valid_data)
    /\ SourceOf(field, Direction) \notin KeysOf(outcome.result.errors)
    /\ SourceOf(field, Direction) \notin KeysOf(outcome.result.invalid_data)

(***************************************************************************)
(* C1.  Required-missing.                                                  *)
(***************************************************************************)
\* C1 as stated: in dump / load, every field of the registry whose value is
\* absent and whose default is MISSING has, if it is required, a required
\* error under its source identifier in an invalid Result and, if it is not
\* required, no entry in valid_data, errors or invalid_data.
C1_AsStated ==
    (SingleCall /\ HasResult) =>
        \A i \in 1..Len(Registry) :
            (Absent(Registry[i]) /\ DeclaredDefault(Registry[i]) = missing) =>
                IF RequiredOf(Registry[i], Direction)
                  THEN HasRequiredError(Registry[i])
                  ELSE HasNoEntry(Registry[i])

\* C1 amended: the same, the required error being there for the fields the
\* field loop reaches (all_errors true, or no earlier field failed); a
\* required field the loop does not reach has no entry, the Result being
\* invalid all the same.
C1_RequiredMissing ==
    (SingleCall /\ HasResult) =>
        \A i \in 1..Len(Registry) :
            (Absent(Registry[i]) /\ DeclaredDefault(Registry[i]) = missing) =>
                IF RequiredOf(Registry[i], Direction)
                  THEN /\ ~is_valid(outcome.result)
                       /\ IF Reached(Registry[i])
                            THEN HasRequiredError(Registry[i])
                            ELSE ~EffectiveAllErrors /\ HasNoEntry(Registry[i])
                  ELSE HasNoEntry(Registry[i])

\* a required field without value or default was reached, after a field
\* that was not required and had none either
C1_Witness ==
    /\ SingleCall /\ HasResult
    /\ \E i, j \in 1..Len(Registry) :
          /\ Absent(Registry[i]) /\ DeclaredDefault(Registry[i]) = missing
          /\ RequiredOf(Registry[i], Direction) /\ Reached(Registry[i])
          /\ HasRequiredError(Registry[i])
          /\ Absent(Registry[j]) /\ DeclaredDefault(Registry[j]) = missing
          /\ ~RequiredOf(Registry[j], Direction) /\ Reached(Registry[j])

(***************************************************************************)
(* C2.  Default substitution.                                              *)
(***************************************************************************)
\* the value a declared default stands for
DefaultValue(field) ==
    IF "producer" \in DOMAIN DeclaredDefault(field)
      THEN DeclaredDefault(field).val ELSE DeclaredDefault(field)

\* what the field method of the call's direction gives for a raw value
Applied(field, raw_value) == FieldApply(field, MethodOf(schema, Direction), raw_value)

\* C2 as stated: a field whose value is absent and whose default is not
\* MISSING has the default under its target identifier in valid_data and no
\* error, required or not.
C2_AsStated ==
    (SingleCall /\ HasResult) =>
        \A i \in 1..Len(Registry) :
            (Absent(Registry[i]) /\ DeclaredDefault(Registry[i]) # missing) =>
                /\ TargetOf(Registry[i], Direction) \in KeysOf(outcome.result.valid_data)
                /\ outcome.result.valid_data.map[TargetOf(Registry[i], Direction)]
                       = DefaultValue(Registry[i])
                /\ SourceOf(Registry[i], Direction) \notin KeysOf(outcome.result.errors)

\* C2 amended: the default is substituted as the raw value and handed to
\* the field method like a value that is present, required or not.  For a
\* field the loop reaches, valid_data holds under the target identifier
\* what the method returns for the default (the default itself when the
\* method leaves it unchanged) and the field has no error; when the method
\* rejects the default the field has that error, never a required error.
C2_DefaultSubstituted ==
    (SingleCall /\ HasResult) =>
        \A i \in 1..Len(Registry) :
            (/\ Absent(Registry[i]) /\ DeclaredDefault(Registry[i]) # missing
             /\ Reached(Registry[i])) =>
                IF Applied(Registry[i], DefaultValue(Registry[i])).ok
                  THEN /\ TargetOf(Registry[i], Direction)
                              \in KeysOf(outcome.result.valid_data)
                       /\ outcome.result.valid_data.map[TargetOf(Registry[i], Direction)]
                              = Applied(Registry[i], DefaultValue(Registry[i])).val
                       /\ SourceOf(Registry[i], Direction)
                              \notin KeysOf(outcome.result.errors)
                  ELSE /\ SourceOf(Registry[i], Direction)
                              \in KeysOf(outcome.result.errors)
                       /\ outcome.result.errors.map[SourceOf(Registry[i], Direction)]
                              = Applied(Registry[i], DefaultValue(Registry[i])).exc

\* load({}) on a schema whose required field declares load_default = 0
\* gave {name: 0} and no error
C2_Witness ==
    /\ call.op = "load" /\ HasResult /\ call.data = MapV(EmptyDict)
    /\ \E i \in 1..Len(Registry) :
          /\ DeclaredDefault(Registry[i]) = IntV(0)
          /\ RequiredOf(Registry[i], "load")
          /\ Reached(Registry[i])
          /\ Registry[i].name \in KeysOf(outcome.result.valid_data)
          /\ outcome.result.valid_data.map[Registry[i].name] = IntV(0)
          /\ Registry[i].key \notin KeysOf(outcome.result.errors)

(***************************************************************************)
(* C3.  all_errors: collect all, or stop at the first failure.             *)
(***************************************************************************)
\* the raw value the loop fetches for a field: the value in the data, else
\* the default
RawValue(field) ==
    GetValue(call.data, SourceOf(field, Direction), DefaultValue(field))

\* the field fails on the call's data: required and missing, or rejected by
\* the field method
Fails(field) ==
    IF RawValue(field) = missing THEN RequiredOf(field, Direction)
    ELSE ~Applied(field, RawValue(field)).ok

FailingFields == {i \in 1..Len(Registry) : Fails(Registry[i])}

\* what the single-item call gives for the i-th item of the batch
ItemResult(i) ==
    ProcessFlow(schema, Direction, FALSE, call.data.list[i],
                BoolV(FALSE), BoolV(EffectiveAllErrors)).result

FailingItems == {i \in 1..Len(call.data.list) : ~is_valid(ItemResult(i))}

First(S) == CHOOSE i \in S : \A j \in S : i <= j

\* C3: with all_errors true every failing field of an item, and every
\* failing item of a batch, has its own entry in errors; with all_errors
\* false the Result of an item with a failure has exactly one entry, that of
\* its first failing field, and the Result of a batch has an entry for its
\* first failing item only, and no later field or item is processed.
C3_AllErrorsOrFailFast ==
    /\ (SingleCall /\ HasResult) =>
          IF EffectiveAllErrors
            THEN /\ KeysOf(outcome.result.errors) =
                        {SourceOf(Registry[i], Direction) : i \in FailingFields}
                 /\ Cardinality(KeysOf(outcome.result.errors)) = Cardinality(FailingFields)
                 /\ Len(outcome.visited) = Len(Registry)
            ELSE IF FailingFields = {} THEN is_valid(outcome.result)
                 ELSE /\ KeysOf(outcome.result.errors) =
                             {SourceOf(Registry[First(FailingFields)], Direction)}
                      /\ Len(outcome.visited) = First(FailingFields)
    /\ (BatchCall /\ HasResult) =>
          IF EffectiveAllErrors
            THEN /\ KeysOf(outcome.result.errors) = {i - 1 : i \in FailingItems}
                 /\ Len(outcome.visited) = Len(call.data.list)
            ELSE IF FailingItems = {} THEN is_valid(outcome.result)
                 ELSE /\ KeysOf(outcome.result.errors) = {First(FailingItems) - 1}
                      /\ Len(outcome.visited) = First(FailingItems)
                      /\ Len(outcome.result.valid_data.list) = First(FailingItems)

\* a fail-fast call on an item with two failing fields gave one error entry
C3_Witness ==
    /\ SingleCall /\ HasResult /\ ~EffectiveAllErrors
    /\ Cardinality(FailingFields) = 2
    /\ Cardinality(KeysOf(outcome.result.errors)) = 1
    /\ \E i \in FailingFields : RawValue(Registry[i]) # missing

(***************************************************************************)
(* C4.  A batch with all_errors is aligned with its items by index.        *)
(***************************************************************************)
\* C4: for dump_many/load_many with all_errors true over n items,
\* valid_data has length n and its i-th element is the valid_data of the
\* single-item Result of item i; the keys of errors and of invalid_data are
\* exactly the indices of the items whose single-item Result is invalid,
\* each mapped to that item's errors / invalid_data.
C4_BatchAligned ==
    (BatchCall /\ HasResult /\ EffectiveAllErrors) =>
        /\ Len(outcome.result.valid_data.list) = Len(call.data.list)
        /\ \A i \in 1..Len(call.data.list) :
              outcome.result.valid_data.list[i] = ItemResult(i).valid_data
        /\ KeysOf(outcome.result.errors) = {i - 1 : i \in FailingItems}
        /\ KeysOf(outcome.result.invalid_data) = {i - 1 : i \in FailingItems}
        /\ \A i \in FailingItems :
              /\ outcome.result.errors.idx[i - 1] = ItemResult(i).errors
              /\ outcome.result.invalid_data.idx[i - 1] = ItemResult(i).invalid_data

\* load_many of a valid item followed by a failing one has entries at
\* index 1 only
C4_Witness ==
    /\ call.op = "load_many" /\ HasResult /\ EffectiveAllErrors
    /\ Len(call.data.list) = 2
    /\ FailingItems = {2}
    /\ KeysOf(outcome.result.errors) = {1}
    /\ Len(outcome.result.valid_data.list) = 2

(***************************************************************************)
(* C5.  The failure of a nested schema is spliced into the outer Result.   *)
(***************************************************************************)
RECURSIVE SplicedIn(_, _, _, _)

\* the entries of a NestedField of s are those of the Result inner of its
\* schema, and so on within that Result
SplicedAt(s, name, field, raw_value, o, inner) ==
    ~is_valid(inner.result) =>
        /\ SourceOf(field, name) \in KeysOf(o.result.errors)
        /\ IsMap(o.result.errors.map[SourceOf(field, name)])
        /\ o.result.errors.map[SourceOf(field, name)] = inner.result.errors
        /\ SourceOf(field, name) \in KeysOf(o.result.invalid_data)
        /\ o.result.invalid_data.map[SourceOf(field, name)] = inner.result.invalid_data
        /\ SplicedIn(field.catalyst, name, raw_value, inner)

\* every NestedField the flow o of s over data reached, with a value to
\* hand to its schema, has that schema's failure spliced in
SplicedIn(s, name, data, o) ==
    \A i \in 1..Len(RegistryOf(s, name)) :
        ( /\ RegistryOf(s, name)[i].class = "NestedField"
          /\ \E j \in 1..Len(o.visited) : o.visited[j] = RegistryOf(s, name)[i].attr
          /\ GetValue(data, SourceOf(RegistryOf(s, name)[i], name), missing)
                 \notin {missing, None} ) =>
            SplicedAt(s, name, RegistryOf(s, name)[i],
                      GetValue(data, SourceOf(RegistryOf(s, name)[i], name), missing),
                      o,
                      ProcessFlow(RegistryOf(s, name)[i].catalyst, name, FALSE,
                                  GetValue(data, SourceOf(RegistryOf(s, name)[i], name),
                                           missing),
                                  BoolV(TRUE), None))

\* C5: when the schema of a Nested field fails on a sub-field, the outer
\* Result's errors under the outer field's source key is the inner Result's
\* errors mapping, and the outer invalid_data under the same key is the
\* inner Result's invalid_data, at every depth of nesting.
C5_NestedSpliced ==
    (SingleCall /\ HasResult) => SplicedIn(schema, Direction, call.data, outcome)

\* a failure two schemas deep: the errors under kn hold a mapping under km
\* that holds the error of x
C5_Witness ==
    /\ call.op = "load" /\ HasResult
    /\ "kn" \in KeysOf(outcome.result.errors)
    /\ "km" \in KeysOf(outcome.result.errors.map["kn"])
    /\ "kx" \in KeysOf(outcome.result.errors.map["kn"].map["km"])
    /\ "kn" \in KeysOf(outcome.result.invalid_data)
    /\ "km" \in KeysOf(outcome.result.invalid_data.map["kn"])
    /\ "kx" \in KeysOf(outcome.result.invalid_data.map["kn"].map["km"])

(***************************************************************************)
(* C6.  When a call raises.                                                *)
(***************************************************************************)
OfSchema == call.op \in {"dump", "load", "dump_many", "load_many"}

\* the same call with raise_error=False
Quiet ==
    ProcessFlow(schema, Direction, BatchCall, call.data, BoolV(FALSE), call.all_errors)

TheField ==
    schema.field_dict[CHOOSE i \in 1..Len(schema.field_dict) :
                          schema.field_dict[i].attr = call.field]

LoadedNone ==
    /\ call.op = "field_load"
    /\ call.data = None
    /\ ~TheField.allow_none

FailedWithNone ==
    /\ outcome.kind = "error"
    /\ outcome.exc = FieldError(TheField, "none")

\* C7 as stated: a field with allow_none=False fails load(None) with the
\* none error, whatever its parser and its parse_none.
C7_AsStated == LoadedNone => FailedWithNone

\* C7: a field with allow_none=False and parse_none false fails load(None)
\* with the none error, whatever its parser; with parse_none true the
\* parser is called on None, its exception is the failure of load, and a
\* value other than None that it returns is validated in place of None, so
\* load does not fail with the none error.
C7_NoneRejected ==
    LoadedNone =>
        IF ~TheField.parse_none THEN FailedWithNone
        ELSE IF ~Parser(TheField, None).ok
               THEN outcome.kind = "error" /\ outcome.exc = Parser(TheField, None).exc
               ELSE IF Parser(TheField, None).val = None THEN FailedWithNone
                    ELSE ~FailedWithNone

\* an IntegerField with allow_none=False failed load(None) with the none
\* error
C7_Witness ==
    /\ LoadedNone /\ FailedWithNone
    /\ TheField.class = "IntegerField"
    /\ ~TheField.parse_none

(***************************************************************************)
(* C8.  With raise_error false nothing escapes a call.                     *)
(***************************************************************************)
\* C8 as stated: with raise_error false, no failure that occurs while a
\* field or an item is processed (a failing default producer and a hook
\* that raises included) leaves dump/load/dump_many/load_many as an
\* exception: the call returns a Result.
C8_AsStated ==
    (OfSchema /\ ~EffectiveRaiseError) => outcome.kind = "returned"

(***************************************************************************)
(* C9.  invalid_data against errors.                                       *)
(***************************************************************************)
\* C9 as stated: in every Result the key set of invalid_data equals the
\* key set of errors.
C9_AsStated ==
    (OfSchema /\ HasResult) =>
        KeysOf(outcome.result.invalid_data) = KeysOf(outcome.result.errors)

At(v, k) == IF IsMap(v) THEN v.map[k] ELSE v.idx[k]
IsNested(v) == IsMap(v) \/ IsIdx(v)

\* the errors of a flow whose hook raised: one entry, under the hook's key
IsHookFailure(e) == IsMap(e) /\ KeysOf(e) # {} /\ KeysOf(e) \subseteq HookNames

RECURSIVE Mirrors(_, _)
\* invalid data d against errors e, built by a field loop or an item loop:
\* d has an entry exactly under the keys of e whose error is not the
\* required error, and a nested entry of d mirrors the nested errors
Mirrors(e, d) ==
    \/ IsHookFailure(e)
    \/ /\ KeysOf(d) \subseteq KeysOf(e)
       /\ \A k \in KeysOf(e) :
             IF k \notin KeysOf(d) THEN At(e, k) = RequiredError
             ELSE IF IsNested(At(e, k)) THEN Mirrors(At(e, k), At(d, k))
                  ELSE At(e, k) # RequiredError

\* C9: in every Result that dump/load/dump_many/load_many builds from its
\* field loop or item loop, the keys of invalid_data are the keys of errors
\* whose error is not a required-missing error, at every depth: a field
\* failure has the raw value under its key, a nested or per-index failure
\* the nested invalid data, and a required-missing error has no entry.  In
\* a Result built from a hook that raised, errors has the hook's key and
\* invalid_data is the data the hook was handed, under no key.
C9_InvalidDataMirrors ==
    (OfSchema /\ HasResult) =>
        /\ Mirrors(outcome.result.errors, outcome.result.invalid_data)
        /\ (IsHookFailure(outcome.result.errors) /\ outcome.ran = <<"pre">>) =>
              outcome.result.invalid_data = call.data
        /\ (SingleCall /\ ~IsHookFailure(outcome.result.errors)) =>
              \A i \in 1..Len(Registry) :
                  (SourceOf(Registry[i], Direction) \in KeysOf(outcome.result.invalid_data)
                   /\ ~IsNested(outcome.result.errors.map[SourceOf(Registry[i], Direction)]))
                  => outcome.result.invalid_data.map[SourceOf(Registry[i], Direction)]
                         = RawValue(Registry[i])

\* a load that found a required field missing and a value it rejected:
\* two errors, one entry of invalid data
C9_Witness ==
    /\ call.op = "load" /\ HasResult
    /\ KeysOf(outcome.result.errors) = {"a", "b"}
    /\ outcome.result.errors.map["a"] = RequiredError
    /\ KeysOf(outcome.result.invalid_data) = {"b"}
    /\ outcome.result.invalid_data.map["b"] = call.data.map["b"]

(***************************************************************************)
(* C10.  Round trip: load what dump gave.                                  *)
(***************************************************************************)
\* every declared field has the identity as formatter and as parser
IdentityLike ==
    \A i \in 1..Len(schema.field_dict) :
        /\ schema.field_dict[i].formatter = "no_processing"
        /\ schema.field_dict[i].parser = "no_processing"

\* no declared field has a default or is left out of a direction
NoDefaults ==
    \A i \in 1..Len(schema.field_dict) :
        /\ schema.field_dict[i].dump_default = missing
        /\ schema.field_dict[i].load_default = missing
        /\ ~schema.field_dict[i].no_dump
        /\ ~schema.field_dict[i].no_load

DumpedValid == call.op = "dump" /\ outcome.kind = "returned" /\ is_valid(outcome.result)

\* schema.load(schema.dump(x).valid_data), x being the data of the call
LoadedBack ==
    ProcessFlow(schema, "load", FALSE, outcome.result.valid_data, None, None)

Constructed == call.op = "init"

Range(q) == {q[i] : i \in 1..Len(q)}

\* the names a direction is restricted to: its own subset, else fields,
\* else every declared field
SubsetOf(own) ==
    IF own # <<>> THEN Range(own)
    ELSE IF call.data.fields # <<>> THEN Range(call.data.fields)
         ELSE {schema.field_dict[i].attr : i \in 1..Len(schema.field_dict)}

\* the registry holds, once each, the declared fields of the subset that
\* are not flagged
HoldsExactly(registry, subset, flag) ==
    /\ Range(registry) =
          { f \in Range(schema.field_dict) : f.attr \in subset /\ ~f[flag] }
    /\ Cardinality(Range(registry)) = Len(registry)

\* C11: after construction the dump registry holds exactly the declared
\* fields not flagged no_dump that are in dump_fields (else fields, else
\* all declared fields), the load registry exactly those not flagged
\* no_load in load_fields (same fallback), and a Callable field is never in
\* the load registry, though constructed with no_load=False.
C11_Registries ==
    Constructed =>
        /\ HoldsExactly(schema.dump_field_dict, SubsetOf(call.data.dump_fields), "no_dump")
        /\ HoldsExactly(schema.load_field_dict, SubsetOf(call.data.load_fields), "no_load")
        /\ \A f \in Range(schema.load_field_dict) : f.class # "CallableField"

\* a Callable field declared with no_load=False and named in load_fields
\* is in the dump registry and not in the load registry
C11_Witness ==
    /\ Constructed
    /\ \E f \in Range(schema.field_dict) :
          /\ f.class = "CallableField"
          /\ f.attr \in Range(call.data.load_fields)
          /\ f \in Range(schema.dump_field_dict)
          /\ f \notin Range(schema.load_field_dict)
    /\ call.data.dump_fields = <<>> /\ call.data.fields # <<>>

(***************************************************************************)
(* C12.  Calls leave the schema alone and do not disturb each other.       *)
(***************************************************************************)
\* what the caller's call returns when it runs alone
Alone(t) ==
    ProcessFlow(schema, NameOf(call[t].op), call[t].many, call[t].data,
                call[t].raise_error, call[t].all_errors)

\* every call that is over produced what it produces alone
AsAlone == \A t \in Callers : call[t].pc = "done" => call[t].returned = Alone(t)

\* C12: no step of a dump/load/dump_many/load_many call changes the schema
\* (registries, options, fields), and the accumulators are local to the
\* call, so each of two calls interleaved on one schema returns the Result
\* it returns when it runs alone.
C12_CallsIndependent == [](AsAlone) /\ [][schema' = schema]_vars

\* two calls whose loops were interleaved are over, with different results
C12_Witness ==
    /\ \A t \in Callers : call[t].pc = "done" /\ call[t].mixed
    /\ call[1].returned # call[2].returned
    /\ call[1].op = "load" /\ call[2].op = "dump_many"
    /\ ~is_valid(call[1].returned.result)

(***************************************************************************)
(* C13.  The order of the hooks and of the main step.                      *)
(***************************************************************************)
PreRaises == schema.hooks["pre_" \o call.op] = "raises"
PostRaises == schema.hooks["post_" \o call.op] = "raises"

\* what the main step gives for the data of the call
MainStep == Handle(schema, Direction, BatchCall, call.data, EffectiveAllErrors)

OnlyError(key) ==
    /\ KeysOf(outcome.result.errors) = {key}
    /\ outcome.result.errors.map[key] = Exc("HookError")

\* C13: the pre hook runs first; the main step runs only if the pre hook
\* did not raise, and the post hook only if the main step produced no
\* errors.  If the pre hook raises, errors holds exactly one entry, under
\* that hook's key, and neither the main step nor the post hook runs; if
\* the post hook raises, errors holds exactly one entry, under the post
\* hook's key, and the valid_data of the main step is discarded.
C13_HookSequence ==
    (OfSchema /\ HasResult) =>
        IF PreRaises
          THEN /\ outcome.ran = <<"pre">>
               /\ OnlyError("pre_" \o call.op)
               /\ outcome.result.valid_data = None
          ELSE IF Truthy(MainStep.errors)
                 THEN /\ outcome.ran = <<"pre", "main">>
                      /\ outcome.result.errors = MainStep.errors
                      /\ outcome.result.valid_data = MainStep.valid_data
                 ELSE /\ outcome.ran = <<"pre", "main", "post">>
                      /\ IF PostRaises
                           THEN /\ OnlyError("post_" \o call.op)
                                /\ outcome.result.valid_data = None
                           ELSE /\ is_valid(outcome.result)
                                /\ outcome.result.valid_data = MainStep.valid_data

\* a load whose post hook raised after a main step that produced data
C13_Witness ==
    /\ call.op = "load" /\ HasResult /\ PostRaises
    /\ outcome.ran = <<"pre", "main", "post">>
    /\ OnlyError("post_load")
    /\ KeysOf(MainStep.valid_data) # {}
    /\ outcome.result.valid_data = None

(***************************************************************************)
(* C14.  What dump does to a value the field's validation rejects.         *)
(***************************************************************************)
\* the field was reached by a dump and the data holds a value for it that
\* Field.validate rejects
Rejected(field) ==
    /\ call.op = "dump" /\ HasResult
    /\ Reached(field) /\ ~Absent(field)
    /\ ~FieldValidate(field, RawValue(field)).ok

HasError(field, e) ==
    /\ field.name \in KeysOf(outcome.result.errors)
    /\ outcome.result.errors.map[field.name] = e
    /\ field.key \notin KeysOf(outcome.result.valid_data)

InnerFlow(field) ==
    ProcessFlow(field.catalyst, Direction, FALSE, RawValue(field), BoolV(TRUE), None)

\* a Nested field that the call reached with a value, and whose schema
\* failed on it
NestedFailed(field) ==
    /\ SingleCall /\ HasResult
    /\ field.class = "NestedField"
    /\ Reached(field)
    /\ RawValue(field) \notin {missing, None}
    /\ ~is_valid(InnerFlow(field).result)

HoldsAt(data, key, value) == key \in KeysOf(data) /\ data.map[key] = value

\* C15 as stated: the inner Result's valid_data is stored in the outer
\* valid_data under the field's source identifier, the key of its errors
\* and invalid_data.
C15_AsStated ==
    \A i \in 1..Len(Registry) :
        NestedFailed(Registry[i]) =>
            HoldsAt(outcome.result.valid_data, SourceOf(Registry[i], Direction),
                    InnerFlow(Registry[i]).result.valid_data)

\* C15: when a Nested field fails during dump or load, the inner Result's
\* partial valid_data is stored in the outer valid_data under the field's
\* target identifier (dump: key, load: name), where the value of a field
\* that succeeds goes, while the inner errors and invalid_data are stored
\* under the source identifier (dump: name, load: key); when name and key
\* differ the outer valid_data has no entry under the source.
C15_ValidDataAtTarget ==
    \A i \in 1..Len(Registry) :
        NestedFailed(Registry[i]) =>
            /\ HoldsAt(outcome.result.valid_data, TargetOf(Registry[i], Direction),
                       InnerFlow(Registry[i]).result.valid_data)
            /\ HoldsAt(outcome.result.errors, SourceOf(Registry[i], Direction),
                       InnerFlow(Registry[i]).result.errors)
            /\ HoldsAt(outcome.result.invalid_data, SourceOf(Registry[i], Direction),
                       InnerFlow(Registry[i]).result.invalid_data)
            /\ Registry[i].name # Registry[i].key =>
                  SourceOf(Registry[i], Direction) \notin KeysOf(outcome.result.valid_data)

\* a load on which the schema of a Nested field named n, of key kn, failed
\* with part of its data valid: that part is under n, the errors under kn
C15_Witness ==
    /\ call.op = "load"
    /\ \E i \in 1..Len(Registry) :
          /\ NestedFailed(Registry[i])
          /\ Registry[i].name = "n" /\ Registry[i].key = "kn"
          /\ KeysOf(InnerFlow(Registry[i]).result.valid_data) # {}
          /\ "n" \in KeysOf(outcome.result.valid_data)
          /\ "kn" \in KeysOf(outcome.result.errors)

(***************************************************************************)
(* C16.  The order in which the fields of an item are processed.           *)
(***************************************************************************)
\* the place of an attribute in the declaration of the schema
DeclaredAt(attr) ==
    CHOOSE i \in 1..Len(schema.field_dict) : schema.field_dict[i].attr = attr

\* the fields of the declaration, in the direction's registry, that fail on
\* the call's data
FailingDeclared ==
    { DeclaredAt(Registry[i].attr) : i \in FailingFields }

\* C16 as stated: the fields of an item are processed in declaration order,
\* also when no fields subset is given, so the single error of a call with
\* all_errors false is that of the first failing field of the declaration.
C16_AsStated ==
    (SingleCall /\ HasResult) =>
        /\ \A i, j \in 1..Len(outcome.visited) :
              i < j => DeclaredAt(outcome.visited[i]) < DeclaredAt(outcome.visited[j])
        /\ (~EffectiveAllErrors /\ FailingFields # {}) =>
              KeysOf(outcome.result.errors) =
                  {SourceOf(schema.field_dict[First(FailingDeclared)], Direction)}

(***************************************************************************)
(* C17.  The registry of a class with bases.                               *)
(***************************************************************************)
Defined == call.op = "define"

\* the attributes the body of the class declares with a Field or a schema
OwnFields ==
    { i \in 1..Len(call.data.attrs) : "class" \in DOMAIN Wrapped(call.data.attrs[i].value) }

\* C17 as stated: the registry of a class holds every field its ancestors
\* declare, those of each base of a class with several bases included,
\* unless a more specific declaration has the same attribute name, and then
\* the more specific field; the fields of the class's own body are the most
\* specific.
C17_AsStated ==
    Defined =>
        /\ \A i \in OwnFields :
              Named(call.data.attrs[i].attr, Wrapped(call.data.attrs[i].value))
                  \in Range(schema.field_dict)
        /\ \A b \in 1..Len(call.data.bases) :
              \A f \in Range(call.data.bases[b]) :
                  f.attr \in Range(Attrs(schema.field_dict))
        /\ \A b \in 1..Len(call.data.bases) :
              \A f \in Range(call.data.bases[b]) :
                  (/\ \A i \in OwnFields : call.data.attrs[i].attr # f.attr
                   /\ \A c \in 1..(b - 1) :
                         f.attr \notin Range(Attrs(call.data.bases[c])))
                  => f \in Range(schema.field_dict)

(***************************************************************************)
(* C18.  A List field one of whose elements fails.                         *)
(***************************************************************************)
\* a List field that the call reached with a list, and whose item field
\* failed on an element of it
ElementFailed(field) ==
    /\ SingleCall /\ HasResult
    /\ field.class = "ListField"
    /\ Reached(field)
    /\ IsList(RawValue(field))
    /\ ~Applied(field, RawValue(field)).ok

\* C18 as stated: when an element of a List field's value fails the item
\* field's dump or load, the outer Result has no valid_data entry for the
\* field, errors holds one leaf error under the field's source key, the
\* element's exception and no mapping, and invalid_data holds the entire
\* raw list under that key, whatever the kind of the item field, a Nested
\* item field included.
C18_AsStated ==
    \A i \in 1..Len(Registry) :
        ElementFailed(Registry[i]) =>
            /\ TargetOf(Registry[i], Direction) \notin KeysOf(outcome.result.valid_data)
            /\ SourceOf(Registry[i], Direction) \in KeysOf(outcome.result.errors)
            /\ ~IsMap(outcome.result.errors.map[SourceOf(Registry[i], Direction)])
            /\ HoldsAt(outcome.result.invalid_data, SourceOf(Registry[i], Direction),
                       RawValue(Registry[i]))

=============================================================================
